---- MODULE Spec2Model ----
(***************************************************************************)
(* Model of mm_file (include/mm_file/mm_file.hpp): mm::file_source<T>, a   *)
(* read-only memory-mapped view of an existing file, and mm::file_sink<T>, *)
(* a writable memory-mapped view of a created/truncated file.              *)
(*                                                                         *)
(* The state is the part of the operating system the two classes talk to   *)
(* (files, the descriptor table, the live mappings), one file_source and   *)
(* one file_sink object, and a record of the last member call.             *)
(* Every member function is one action; the system calls it makes are      *)
(* operators on the OS state, evaluated in the order of the code.          *)
(***************************************************************************)
EXTENDS Integers, Sequences, FiniteSets

VARIABLES files, fds, maps, src, snk, last, proc, rt, wrote

vars == <<files, fds, maps, src, snk, last, proc, rt, wrote>>

-----------------------------------------------------------------------------
(* Bounds of the model *)

\* longest file present before the program starts, in bytes
MaxFileLen == 3
\* largest element count passed to file_sink::open
MaxElems == 2
\* size of the process's descriptor table (open fails with EMFILE beyond it)
MaxFds == 2
\* number of mappings the address space has room for (mmap fails with ENOMEM)
MaxMaps == 2
\* largest byte value stored through file_sink::data()
MaxVal == 1

-----------------------------------------------------------------------------
(* Program constants *)

\* sizeof(T) of the element type both views are instantiated with
SizeofT == 2
\* the value of m_fd that means "not open", and the error return of ::open
NoFd == -1
\* nullptr
nullptr == 0
\* MAP_FAILED, (void*) -1
MAP_FAILED == -1

advice_normal == "POSIX_MADV_NORMAL"
advice_random == "POSIX_MADV_RANDOM"
advice_sequential == "POSIX_MADV_SEQUENTIAL"
Advice == {advice_normal, advice_random, advice_sequential}

\* what() of the std::runtime_error each failing step throws
FileOpenError == "cannot open file"
FileStatError == "cannot stat file"
MappingError == "mmap failed"
AdviseError == "madvise failed"
UnmapError == "munmap failed"
NoError == "none"

-----------------------------------------------------------------------------
(* The operating system *)

\* "a" lies in an existing directory; the directory of "missing/b" does not
\* exist, so that path can be neither opened nor created (ENOENT)
Paths == {"a", "missing/b"}
Creatable == {"a"}
Descriptors == 3 .. (2 + MaxFds)
Addresses == 1 .. MaxMaps
\* Every system call takes a flag `fault`: the environment makes the call
\* fail for a reason outside the program's state (EACCES, EIO, ENOMEM, EFBIG).

NoFile == [exists |-> FALSE, content |-> <<>>, mode |-> "0600"]
FreeFd == [path |-> "", owner |-> ""]
FreeMap == [path |-> "", len |-> 0, owner |-> "", write |-> FALSE]

Min(S) == CHOOSE x \in S : \A y \in S : x <= y

Zeros(n) == [i \in 1 .. n |-> 0]

\* ::open(path, O_RDONLY): the lowest free descriptor, or -1 (ENOENT when the
\* path does not exist, EMFILE when the table is full, or the environment)
SysOpenRead(F, D, path, fault) ==
    LET free == {d \in Descriptors : D[d] = FreeFd}
    IN IF fault \/ ~F[path].exists \/ free = {} THEN NoFd ELSE Min(free)

\* ::open(path, O_RDWR | O_CREAT | O_TRUNC, 0600): the descriptor, or -1
\* (ENOENT for a missing directory, EMFILE, or the environment)
SysOpenCreate(F, D, path, fault) ==
    LET free == {d \in Descriptors : D[d] = FreeFd}
    IN IF fault \/ (~F[path].exists /\ path \notin Creatable) \/ free = {}
       THEN NoFd ELSE Min(free)

\* the file after a successful O_CREAT | O_TRUNC open: created empty with the
\* given mode when absent, cut to length 0 (mode kept) when present
CreateTrunc(file, mode) ==
    IF file.exists THEN [file EXCEPT !.content = <<>>]
    ELSE [exists |-> TRUE, content |-> <<>>, mode |-> mode]

\* fstat(fd, &fs): -1 on a bad descriptor or an environment failure, else 0
SysFstat(D, fd, fault) ==
    IF fault \/ fd \notin Descriptors \/ D[fd] = FreeFd THEN -1 ELSE 0

\* a size rounded down to whole elements instead of the size in bytes
StSizeWholeElements(F, D, fd) == (Len(F[D[fd].path].content) \div SizeofT) * SizeofT

\* fs.st_size of the file behind an open descriptor
StSize(F, D, fd) == Len(F[D[fd].path].content)

\* the content of a file after ftruncate(fd, len): cut, or extended by zeros
Resize(content, len) ==
    IF len <= Len(content) THEN SubSeq(content, 1, len)
    ELSE content \o Zeros(len - Len(content))

\* mmap(NULL, len, prot, MAP_SHARED, fd, 0): the lowest free address, or
\* MAP_FAILED (EINVAL for len = 0, EBADF, ENOMEM, or the environment)
SysMmap(D, M, len, fd, fault) ==
    LET free == {a \in Addresses : M[a] = FreeMap}
    IN IF fault \/ len = 0 \/ fd \notin Descriptors \/ D[fd] = FreeFd \/ free = {}
       THEN MAP_FAILED ELSE Min(free)

\* munmap(addr, len): -1 (EINVAL) for an unaligned address such as
\* MAP_FAILED or for len = 0, or an environment failure; else 0
SysMunmap(addr, len, fault) ==
    IF fault \/ addr < 0 \/ len = 0 THEN -1 ELSE 0

\* the mappings after a successful munmap(addr, len): all lengths of the
\* model lie within one page, so the page holding addr goes as a whole
Unmapped(M, addr) ==
    IF addr \in Addresses THEN [M EXCEPT ![addr] = FreeMap] ELSE M

\* the descriptor table after ::close(fd) (EBADF changes nothing)
Closed(D, fd) ==
    IF fd \in Descriptors THEN [D EXCEPT ![fd] = FreeFd] ELSE D

\* posix_madvise(addr, len, adv): 0, or an error number
SysMadvise(M, addr, len, adv, fault) ==
    IF fault \/ adv \notin Advice \/ (len > 0 /\ addr \notin Addresses) THEN 1 ELSE 0

Call(fn, arg) == [fn |-> fn, arg |-> arg]

\* the outcome of a member call: the object's fields, the OS state, the
\* exception thrown (NoError when it returns) and the system calls it made
Res(v, F, D, M, err, calls) ==
    [view |-> v, files |-> F, fds |-> D, maps |-> M, err |-> err, calls |-> calls]

\* an access of one byte at addr + off through a mapping: SIGSEGV when no
\* mapping lives at addr; SIGBUS when the page lies wholly beyond the end of
\* the file (every file of the model fits one page, so: when it is empty)
Access(F, M, addr) ==
    IF addr \notin Addresses \/ M[addr] = FreeMap THEN "SIGSEGV"
    ELSE IF Len(F[M[addr].path].content) = 0 THEN "SIGBUS"
    ELSE "ok"

\* the byte read at addr + off (zero between the end of the file and the
\* end of its last page)
ByteAt(F, M, addr, off) ==
    LET c == F[M[addr].path].content
    IN IF off < Len(c) THEN c[off + 1] ELSE 0

\* the T at element index i of the array at addr, as its sizeof(T) bytes
ElemAt(F, M, addr, i) ==
    [j \in 1 .. SizeofT |-> ByteAt(F, M, addr, i * SizeofT + j - 1)]

-----------------------------------------------------------------------------
(* struct file_source *)

\* file_source::init
source_init(v) == [v EXCEPT !.m_fd = NoFd, !.m_size = 0, !.m_data = nullptr]

\* file_source::is_open
source_is_open(v) == v.m_fd # NoFd

\* file_source::bytes
source_bytes(v) == v.m_size

\* file_source::size
source_size(v) == v.m_size \div SizeofT

\* file_source::data
source_data(v) == v.m_data

\* the test left out: the result of ::open is not looked at
source_open_unchecked(fd) == FALSE

\* the test `m_fd == -1` after ::open in file_source::open
source_open_failed(fd) == fd = NoFd

\* the length argument of posix_madvise in file_source::open
source_advise_len(v) == v.m_size \div SizeofT

\* a hint whose failure is not taken for an error
source_advise_ignored(rc) == FALSE

\* the test of the result of posix_madvise in file_source::open
source_advise_failed(rc) == rc # 0

\* the files after an open that truncates, as the write view's does
OpenedTruncating(F, path) == [F EXCEPT ![path] = CreateTrunc(@, "0600")]

\* the files after a successful ::open(path, O_RDONLY): no flag of the call
\* creates, truncates or writes
OpenedReadOnly(F, path) == F

\* file_source::open
source_open(v, F, D, M, path, adv, fault) ==
    LET fd == SysOpenRead(F, D, path, fault = "open")
        D1 == IF fd = NoFd THEN D
              ELSE [D EXCEPT ![fd] = [path |-> path, owner |-> "src"]]
        F1 == IF fd = NoFd THEN F ELSE OpenedReadOnly(F, path)
        v1 == [v EXCEPT !.m_fd = fd]
        c1 == <<Call("open", 0)>>
    IN  IF source_open_failed(fd) THEN Res(v1, F1, D1, M, FileOpenError, c1)
        ELSE
        LET c2 == Append(c1, Call("fstat", fd))
        IN  IF SysFstat(D1, fd, fault = "fstat") = -1
            THEN Res(v1, F1, D1, M, FileStatError, c2)
            ELSE
            LET v2 == [v1 EXCEPT !.m_size = StSize(F1, D1, fd)]
                addr == SysMmap(D1, M, v2.m_size, fd, fault = "mmap")
                M1 == IF addr = MAP_FAILED THEN M
                      ELSE [M EXCEPT ![addr] = [path |-> path, len |-> v2.m_size,
                                                owner |-> "src", write |-> FALSE]]
                v3 == [v2 EXCEPT !.m_data = addr]
                c3 == Append(c2, Call("mmap", v2.m_size))
            IN  IF v3.m_data = MAP_FAILED THEN Res(v3, F1, D1, M1, MappingError, c3)
                ELSE
                LET c4 == Append(c3, Call("posix_madvise", source_advise_len(v3)))
                IN  IF source_advise_failed(SysMadvise(M1, v3.m_data, source_advise_len(v3),
                                                       adv, fault = "posix_madvise"))
                    THEN Res(v3, F1, D1, M1, AdviseError, c4)
                    ELSE Res(v3, F1, D1, M1, NoError, c4)

\* a close() that closes the descriptor first and unmaps afterwards
source_close_fd_first(v, F, D, M, fault) ==
    IF source_is_open(v)
    THEN IF SysMunmap(v.m_data, v.m_size, fault = "munmap") = -1
         THEN Res(v, F, Closed(D, v.m_fd), M, UnmapError,
                  <<Call("close", v.m_fd), Call("munmap", v.m_size)>>)
         ELSE Res(source_init(v), F, Closed(D, v.m_fd), Unmapped(M, v.m_data), NoError,
                  <<Call("close", v.m_fd), Call("munmap", v.m_size)>>)
    ELSE Res(v, F, D, M, NoError, <<>>)

\* file_source::close
source_close(v, F, D, M, fault) ==
    IF source_is_open(v)
    THEN IF SysMunmap(v.m_data, v.m_size, fault = "munmap") = -1
         THEN Res(v, F, D, M, UnmapError, <<Call("munmap", v.m_size)>>)
         ELSE Res(source_init(v), F, Closed(D, v.m_fd), Unmapped(M, v.m_data), NoError,
                  <<Call("munmap", v.m_size), Call("close", v.m_fd)>>)
    ELSE Res(v, F, D, M, NoError, <<>>)

\* file_source::iterator::iterator(addr, offset): the pointer addr + offset
source_iterator(addr, offset) == [base |-> addr, off |-> offset]

\* file_source::iterator::operator++
source_iterator_inc(it) == [it EXCEPT !.off = @ + 1]

\* file_source::iterator::operator==
source_iterator_eq(it, rhs) == it.base = rhs.base /\ it.off = rhs.off

\* file_source::iterator::operator!=
source_iterator_ne(it, rhs) == ~source_iterator_eq(it, rhs)

\* file_source::begin
source_begin(v) == source_iterator(v.m_data, 0)

\* an end that counts bytes where it should count elements
source_end_in_bytes(v) == source_iterator(v.m_data, v.m_size)

\* file_source::end
source_end(v) == source_iterator(v.m_data, source_size(v))

\* file_source::iterator::operator*: a copy of the element at the cursor
source_iterator_deref(F, M, it) == ElemAt(F, M, it.base, it.off)

\* for (it = begin(); it != end(); ++it) use(*it): the positions visited, the
\* values read, and the signal that stopped the loop if an access faulted
RECURSIVE source_iterate(_, _, _, _, _, _)
source_iterate(F, M, it, end, visited, values) ==
    IF source_iterator_ne(it, end)
    THEN IF Access(F, M, it.base) # "ok"
         THEN [visited |-> Append(visited, it.off), values |-> values,
               signal |-> Access(F, M, it.base)]
         ELSE source_iterate(F, M, source_iterator_inc(it), end,
                             Append(visited, it.off),
                             Append(values, source_iterator_deref(F, M, it)))
    ELSE [visited |-> visited, values |-> values, signal |-> NoError]

-----------------------------------------------------------------------------
(* struct file_sink *)

\* `static const mode_t mode = 0600` in file_sink::open
sink_mode == "0600"

\* file_sink::init
sink_init(v) == [v EXCEPT !.m_fd = NoFd, !.m_size = 0, !.m_data = nullptr]

\* file_sink::is_open
sink_is_open(v) == v.m_fd # NoFd

\* file_sink::bytes
sink_bytes(v) == v.m_size

\* file_sink::size
sink_size(v) == v.m_size \div SizeofT

\* file_sink::data
sink_data(v) == v.m_data

\* the test `m_fd == -1` after ::open in file_sink::open
sink_open_failed(fd) == fd = NoFd

\* `m_size = n * sizeof(T)` in file_sink::open
sink_byte_size(n) == n * SizeofT

\* ftruncate(m_fd, m_size) in file_sink::open: the file is resized unless the
\* call fails; its return value is not looked at
sink_ftruncate(F, D, fd, len, fault) ==
    IF fault \/ fd \notin Descriptors \/ D[fd] = FreeFd THEN F
    ELSE [F EXCEPT ![D[fd].path].content = Resize(@, len)]

\* m_size = n * sizeof(T) for n = 2^63 + low: size_t arithmetic is modulo
\* 2^64, and 2^63 * sizeof(T) is a multiple of 2^64 when sizeof(T) is even,
\* so the product is low * sizeof(T)
sink_byte_size_high(low) == low * SizeofT

\* file_sink::open, with m_size the value of n * sizeof(T) as a size_t
sink_open_sized(v, F, D, M, path, m_size, fault) ==
    LET fd == SysOpenCreate(F, D, path, fault = "open")
        D1 == IF fd = NoFd THEN D
              ELSE [D EXCEPT ![fd] = [path |-> path, owner |-> "snk"]]
        F1 == IF fd = NoFd THEN F
              ELSE [F EXCEPT ![path] = CreateTrunc(@, sink_mode)]
        v1 == [v EXCEPT !.m_fd = fd]
        c1 == <<Call("open", 0)>>
    IN  IF sink_open_failed(fd) THEN Res(v1, F1, D1, M, FileOpenError, c1)
        ELSE
        LET v2 == [v1 EXCEPT !.m_size = m_size]
            F2 == sink_ftruncate(F1, D1, fd, v2.m_size, fault = "ftruncate")
            c2 == Append(c1, Call("ftruncate", v2.m_size))
            addr == SysMmap(D1, M, v2.m_size, fd, fault = "mmap")
            M1 == IF addr = MAP_FAILED THEN M
                  ELSE [M EXCEPT ![addr] = [path |-> path, len |-> v2.m_size,
                                            owner |-> "snk", write |-> TRUE]]
            v3 == [v2 EXCEPT !.m_data = addr]
            c3 == Append(c2, Call("mmap", v2.m_size))
        IN  IF v3.m_data = MAP_FAILED THEN Res(v3, F2, D1, M1, MappingError, c3)
            ELSE Res(v3, F2, D1, M1, NoError, c3)

\* file_sink::open(path, n) for an n whose product n * sizeof(T) is below 2^64
sink_open(v, F, D, M, path, n, fault) ==
    sink_open_sized(v, F, D, M, path, sink_byte_size(n), fault)

\* file_sink::open(path, n) for n = 2^63 + low
sink_open_high(v, F, D, M, path, low, fault) ==
    sink_open_sized(v, F, D, M, path, sink_byte_size_high(low), fault)

\* file_sink::close
sink_close(v, F, D, M, fault) ==
    IF sink_is_open(v)
    THEN IF SysMunmap(v.m_data, v.m_size, fault = "munmap") = -1
         THEN Res(v, F, D, M, UnmapError, <<Call("munmap", v.m_size)>>)
         ELSE Res(sink_init(v), F, Closed(D, v.m_fd), Unmapped(M, v.m_data), NoError,
                  <<Call("munmap", v.m_size), Call("close", v.m_fd)>>)
    ELSE Res(v, F, D, M, NoError, <<>>)

\* file_sink::iterator::iterator(addr, offset): the pointer addr + offset
sink_iterator(addr, offset) == [base |-> addr, off |-> offset]

\* file_sink::iterator::operator++
sink_iterator_inc(it) == [it EXCEPT !.off = @ + 1]

\* file_sink::iterator::operator==
sink_iterator_eq(it, rhs) == it.base = rhs.base /\ it.off = rhs.off

\* file_sink::iterator::operator!=
sink_iterator_ne(it, rhs) == ~sink_iterator_eq(it, rhs)

\* file_sink::begin
sink_begin(v) == sink_iterator(v.m_data, 0)

\* file_sink::end
sink_end(v) == sink_iterator(v.m_data, sink_size(v))

\* file_sink::iterator::operator*: declared `T operator*()`, it returns the
\* element at the cursor by value
sink_iterator_deref(F, M, it) == ElemAt(F, M, it.base, it.off)

\* the file contents after `*it = x`: operator* has handed out a temporary
\* copy of the element, the assignment changes that temporary and the
\* mapped bytes stay as they are
sink_iterator_assign(F, M, it, x) == F

\* a store into a private (copy-on-write) mapping: the file keeps its bytes
sink_data_store_private(F, M, addr, i, x) == F

\* the file contents after `data()[i] = x`, a store through the T* of data();
\* bytes that fall beyond the end of the file are not kept
sink_data_store(F, M, addr, i, x) ==
    LET p == M[addr].path
    IN [F EXCEPT ![p].content =
           [k \in 1 .. Len(@) |->
               IF k - 1 >= i * SizeofT /\ k - 1 < (i + 1) * SizeofT
               THEN x[k - i * SizeofT] ELSE @[k]]]

\* the k-th value (k = 0, 1, ...) of the known sequence a caller writes
Known(k) == [j \in 1 .. SizeofT |-> k + 1]

\* for (it = begin(), k = 0; it != end(); ++it, ++k) *it = Known(k)
\* operator* loads *m_ptr into a temporary that the assignment overwrites and
\* drops. Where m_ptr is not backed by a page of a file the load is undefined
\* behaviour: a build that performs it (loads) is stopped by the signal at
\* that element, a build that drops the dead load runs the loop to end().
RECURSIVE sink_iterate_assign(_, _, _, _, _, _)
sink_iterate_assign(F, M, it, end, visited, loads) ==
    IF sink_iterator_ne(it, end)
    THEN IF loads /\ Access(F, M, it.base) # "ok"
         THEN [files |-> F, visited |-> Append(visited, it.off),
               signal |-> Access(F, M, it.base)]
         ELSE sink_iterate_assign(sink_iterator_assign(F, M, it, Known(it.off)), M,
                                  sink_iterator_inc(it), end, Append(visited, it.off),
                                  loads)
    ELSE [files |-> F, visited |-> visited, signal |-> NoError]

-----------------------------------------------------------------------------
(* The program: one file_source and one file_sink object and their callers *)

\* the storage of an object that is not constructed
Absent == [alive |-> FALSE, m_fd |-> NoFd, m_size |-> 0, m_data |-> nullptr]

Fresh == [Absent EXCEPT !.alive = TRUE]

\* what the program knows of the call it made last: the object and member,
\* the arguments, whether the object was in its initial (closed) state when
\* the call was made, whether the call repeats a close(), the exception it
\* threw and the system calls it made, and for a loop the positions visited
\* and the values read
Done(view, op, path, n, err, calls) ==
    [view |-> view, op |-> op, path |-> path, n |-> n,
     clean |-> IF view = "src" THEN src \in {Absent, Fresh} ELSE snk \in {Absent, Fresh},
     again |-> op = "close" /\ last.op = "close" /\ last.view = view,
     err |-> err, calls |-> calls, visited |-> <<>>, values |-> <<>>]

Start ==
    [view |-> "", op |-> "start", path |-> "", n |-> 0, clean |-> TRUE, again |-> FALSE,
     err |-> NoError, calls |-> <<>>, visited |-> <<>>, values |-> <<>>]

\* the byte value the caller stored last at each element index of a file
\* through data()[i] since the file was truncated last (0: none)
NoStores == [i \in 0 .. MaxElems - 1 |-> 0]

\* the call opened the file with O_TRUNC: ::open succeeded and ftruncate
\* followed
Truncates(calls) == \E k \in 1 .. Len(calls) : calls[k].fn = "ftruncate"

NoRoundTrip == [stage |-> "none", path |-> "", n |-> 0]

\* the lengths of the file that exists before the program starts: empty, a
\* whole number of elements, and a length with a trailing partial element
InitLens == {0} \cup {k \in MaxFileLen - SizeofT + 1 .. MaxFileLen : k > 0}

Init ==
    /\ \/ files = [p \in Paths |-> NoFile]
       \/ \E k \in InitLens :
             files = [p \in Paths |->
                         IF p = "a"
                         THEN [exists |-> TRUE, content |-> [i \in 1 .. k |-> i],
                               mode |-> "0644"]
                         ELSE NoFile]
    /\ fds = [d \in Descriptors |-> FreeFd]
    /\ maps = [a \in Addresses |-> FreeMap]
    /\ src = Absent
    /\ snk = Absent
    /\ last = Start
    /\ proc = "running"
    /\ rt = NoRoundTrip
    /\ wrote = [p \in Paths |-> NoStores]

\* the stage of a write / close / reopen / read round trip after a call of
\* the read view: the view is opened on the written path once the write view
\* has closed it, and any other open or close of the read view ends that
SrcStage(op, path, ok) ==
    IF op = "open" /\ ok /\ rt.stage = "closed" /\ path = rt.path
       /\ src \in {Absent, Fresh}
    THEN [rt EXCEPT !.stage = "reopened"]
    ELSE IF rt.stage = "reopened" THEN [rt EXCEPT !.stage = "closed"]
    ELSE rt

\* file_source::file_source()
SrcConstruct ==
    /\ proc = "running" /\ ~src.alive
    /\ src' = source_init(Fresh)
    /\ last' = Done("src", "ctor", "", 0, NoError, <<>>)
    /\ UNCHANGED <<files, fds, maps, snk, proc, rt, wrote>>

\* file_source::file_source(path, adv): when open throws, the object never
\* comes to exist and its destructor is not run
SrcConstructOpen(path, adv, fault) ==
    /\ proc = "running" /\ ~src.alive
    /\ LET r == source_open(source_init(Fresh), files, fds, maps, path, adv, fault)
       IN /\ src' = IF r.err = NoError THEN r.view ELSE Absent
          /\ files' = r.files /\ fds' = r.fds /\ maps' = r.maps
          /\ last' = Done("src", "ctor_open", path, 0, r.err, r.calls)
          /\ rt' = SrcStage("open", path, r.err = NoError)
    /\ UNCHANGED <<snk, proc, wrote>>

\* file_source::open(path, adv), called on a live object in any state
SrcOpen(path, adv, fault) ==
    /\ proc = "running" /\ src.alive
    /\ LET r == source_open(src, files, fds, maps, path, adv, fault)
       IN /\ src' = r.view
          /\ files' = r.files /\ fds' = r.fds /\ maps' = r.maps
          /\ last' = Done("src", "open", path, 0, r.err, r.calls)
          /\ rt' = SrcStage("open", path, r.err = NoError)
    /\ UNCHANGED <<snk, proc, wrote>>

\* file_source::close()
SrcClose(fault) ==
    /\ proc = "running" /\ src.alive
    /\ LET r == source_close(src, files, fds, maps, fault)
       IN /\ src' = r.view
          /\ files' = r.files /\ fds' = r.fds /\ maps' = r.maps
          /\ last' = Done("src", "close", "", 0, r.err, r.calls)
    /\ rt' = SrcStage("close", "", TRUE)
    /\ UNCHANGED <<snk, proc, wrote>>

\* file_source::~file_source(): close(); an exception leaving the (noexcept)
\* destructor ends the process through std::terminate
SrcDestroy(fault) ==
    /\ proc = "running" /\ src.alive
    /\ LET r == source_close(src, files, fds, maps, fault)
       IN /\ src' = IF r.err = NoError THEN Absent ELSE r.view
          /\ files' = r.files /\ fds' = r.fds /\ maps' = r.maps
          /\ last' = Done("src", "dtor", "", 0, r.err, r.calls)
          /\ proc' = IF r.err = NoError THEN "running" ELSE "terminated"
    /\ rt' = SrcStage("close", "", TRUE)
    /\ UNCHANGED <<snk, wrote>>

\* a caller's loop over [begin(), end()) of the read view, reading each *it
SrcIterate ==
    /\ proc = "running" /\ src.alive
    /\ LET r == source_iterate(files, maps, source_begin(src), source_end(src), <<>>, <<>>)
       IN /\ last' = [Done("src", "iterate", "", 0, r.signal, <<>>)
                         EXCEPT !.visited = r.visited, !.values = r.values]
          /\ proc' = IF r.signal = NoError THEN "running" ELSE "terminated"
    /\ UNCHANGED <<files, fds, maps, src, snk, rt, wrote>>

\* the stage of the round trip after a call of the write view: open(path, n),
\* then one pass of assignments through the iterator, then close
SnkStage(op, path, n, ok) ==
    IF op = "open"
    THEN IF ok /\ snk \in {Absent, Fresh}
         THEN [stage |-> "opened", path |-> path, n |-> n] ELSE NoRoundTrip
    ELSE IF op = "assign"
    THEN IF ok /\ rt.stage = "opened" THEN [rt EXCEPT !.stage = "written"]
         ELSE NoRoundTrip
    ELSE IF op = "close"
    THEN IF ok /\ rt.stage = "written" THEN [rt EXCEPT !.stage = "closed"]
         ELSE IF ok /\ rt.stage \in {"closed", "reopened"} THEN rt
         ELSE NoRoundTrip
    ELSE NoRoundTrip

\* file_sink::file_sink()
SnkConstruct ==
    /\ proc = "running" /\ ~snk.alive
    /\ snk' = sink_init(Fresh)
    /\ last' = Done("snk", "ctor", "", 0, NoError, <<>>)
    /\ UNCHANGED <<files, fds, maps, src, proc, rt, wrote>>

\* file_sink::file_sink(path, n)
SnkConstructOpen(path, n, fault) ==
    /\ proc = "running" /\ ~snk.alive
    /\ LET r == sink_open(sink_init(Fresh), files, fds, maps, path, n, fault)
       IN /\ snk' = IF r.err = NoError THEN r.view ELSE Absent
          /\ files' = r.files /\ fds' = r.fds /\ maps' = r.maps
          /\ last' = Done("snk", "ctor_open", path, n, r.err, r.calls)
          /\ rt' = SnkStage("open", path, n, r.err = NoError)
          /\ wrote' = IF Truncates(r.calls) THEN [wrote EXCEPT ![path] = NoStores] ELSE wrote
    /\ UNCHANGED <<src, proc>>

\* file_sink::open(path, n), called on a live object in any state
SnkOpen(path, n, fault) ==
    /\ proc = "running" /\ snk.alive
    /\ LET r == sink_open(snk, files, fds, maps, path, n, fault)
       IN /\ snk' = r.view
          /\ files' = r.files /\ fds' = r.fds /\ maps' = r.maps
          /\ last' = Done("snk", "open", path, n, r.err, r.calls)
          /\ rt' = SnkStage("open", path, n, r.err = NoError)
          /\ wrote' = IF Truncates(r.calls) THEN [wrote EXCEPT ![path] = NoStores] ELSE wrote
    /\ UNCHANGED <<src, proc>>

\* file_sink::open(path, n) with n = 2^63 + low, called on a live object in
\* any state, for an element type of even size (n * sizeof(T) is then 2^64
\* or more)
SnkOpenHigh(path, low, fault) ==
    /\ proc = "running" /\ snk.alive
    /\ SizeofT % 2 = 0
    /\ LET r == sink_open_high(snk, files, fds, maps, path, low, fault)
       IN /\ snk' = r.view
          /\ files' = r.files /\ fds' = r.fds /\ maps' = r.maps
          /\ last' = Done("snk", "open_high", path, low, r.err, r.calls)
          /\ wrote' = IF Truncates(r.calls) THEN [wrote EXCEPT ![path] = NoStores] ELSE wrote
    /\ rt' = NoRoundTrip
    /\ UNCHANGED <<src, proc>>

\* file_sink::close()
SnkClose(fault) ==
    /\ proc = "running" /\ snk.alive
    /\ LET r == sink_close(snk, files, fds, maps, fault)
       IN /\ snk' = r.view
          /\ files' = r.files /\ fds' = r.fds /\ maps' = r.maps
          /\ last' = Done("snk", "close", "", 0, r.err, r.calls)
          /\ rt' = SnkStage("close", "", 0, r.err = NoError)
    /\ UNCHANGED <<src, proc, wrote>>

\* file_sink::~file_sink()
SnkDestroy(fault) ==
    /\ proc = "running" /\ snk.alive
    /\ LET r == sink_close(snk, files, fds, maps, fault)
       IN /\ snk' = IF r.err = NoError THEN Absent ELSE r.view
          /\ files' = r.files /\ fds' = r.fds /\ maps' = r.maps
          /\ last' = Done("snk", "dtor", "", 0, r.err, r.calls)
          /\ proc' = IF r.err = NoError THEN "running" ELSE "terminated"
          /\ rt' = SnkStage("close", "", 0, r.err = NoError)
    /\ UNCHANGED <<src, wrote>>

\* a caller's `data()[i] = x` on the write view, for an index below size()
SnkStore(i, b) ==
    /\ proc = "running" /\ snk.alive
    /\ i < sink_size(snk)
    /\ LET sig == Access(files, maps, sink_data(snk))
       IN /\ files' = IF sig = "ok"
                      THEN sink_data_store(files, maps, sink_data(snk), i,
                                           [j \in 1 .. SizeofT |-> b])
                      ELSE files
          /\ last' = Done("snk", "store", "", i, IF sig = "ok" THEN NoError ELSE sig, <<>>)
          /\ proc' = IF sig = "ok" THEN "running" ELSE "terminated"
          /\ wrote' = IF sig = "ok"
                      THEN [wrote EXCEPT ![maps[sink_data(snk)].path][i] = b]
                      ELSE wrote
    /\ rt' = NoRoundTrip
    /\ UNCHANGED <<fds, maps, src, snk>>

\* a caller's loop over [begin(), end()) of the write view, assigning the
\* known values through each *it, in a build that performs the load of
\* operator* or in one that drops it
SnkIterate ==
    /\ proc = "running" /\ snk.alive
    /\ \E loads \in BOOLEAN :
       LET r == sink_iterate_assign(files, maps, sink_begin(snk), sink_end(snk), <<>>,
                                    loads)
       IN /\ files' = r.files
          /\ last' = [Done("snk", "iterate", "", 0, r.signal, <<>>) EXCEPT !.visited = r.visited]
          /\ proc' = IF r.signal = NoError THEN "running" ELSE "terminated"
          /\ rt' = SnkStage("assign", "", 0, r.signal = NoError)
    /\ UNCHANGED <<fds, maps, src, snk, wrote>>

\* the hint and the failing system call of a read-view open: every hint
\* without a failure, and every failure under the default hint
SourceOpenCases ==
    {[adv |-> a, fault |-> "none"] : a \in Advice} \cup
    {[adv |-> advice_normal, fault |-> f] : f \in {"open", "fstat", "mmap", "posix_madvise"}}

Next ==
    \/ SrcConstruct
    \/ \E p \in Paths, c \in SourceOpenCases :
          SrcConstructOpen(p, c.adv, c.fault) \/ SrcOpen(p, c.adv, c.fault)
    \/ \E f \in {"none", "munmap"} : SrcClose(f) \/ SrcDestroy(f)
    \/ SrcIterate
    \/ SnkConstruct
    \/ \E p \in Paths, n \in 0 .. MaxElems, f \in {"none", "open", "ftruncate", "mmap"} :
          SnkConstructOpen(p, n, f) \/ SnkOpen(p, n, f)
    \/ \E f \in {"none", "munmap"} : SnkClose(f) \/ SnkDestroy(f)
    \/ \E i \in 0 .. MaxElems - 1, b \in 1 .. MaxVal : SnkStore(i, b)
    \/ SnkIterate

Spec == Init /\ [][Next]_vars

\* the calls of the read view
NextSource ==
    \/ SrcConstruct
    \/ \E p \in Paths, c \in SourceOpenCases :
          SrcConstructOpen(p, c.adv, c.fault) \/ SrcOpen(p, c.adv, c.fault)
    \/ \E f \in {"none", "munmap"} : SrcClose(f) \/ SrcDestroy(f)
    \/ SrcIterate

\* the read view alone, over the file found at the start
SpecSource == Init /\ [][NextSource]_vars

\* the read view, beside a write view that is constructed on a path and
\* destroyed again
NextReader ==
    \/ NextSource
    \/ \E p \in Paths, n \in 0 .. MaxElems, f \in {"none", "open", "ftruncate", "mmap"} :
          SnkConstructOpen(p, n, f)
    \/ \E f \in {"none", "munmap"} : SnkDestroy(f)

SpecReader == Init /\ [][NextReader]_vars

\* a scoped read view beside a scoped write view that is stored into, with no
\* failure of a system call other than those the state of the files causes
NextShared ==
    \/ \E p \in Paths : SrcConstructOpen(p, advice_normal, "none")
    \/ SrcIterate
    \/ SrcDestroy("none")
    \/ \E p \in Paths, n \in 0 .. MaxElems : SnkConstructOpen(p, n, "none")
    \/ \E i \in 0 .. MaxElems - 1, b \in 1 .. MaxVal : SnkStore(i, b)
    \/ SnkDestroy("none")

SpecShared == Init /\ [][NextShared]_vars

\* the write view alone, opened with element counts from 0 up and from 2^63 up
NextCounts ==
    \/ SnkConstruct
    \/ \E p \in Paths, n \in 0 .. MaxElems, f \in {"none", "open", "ftruncate", "mmap"} :
          SnkOpen(p, n, f) \/ SnkOpenHigh(p, n, f)
    \/ \E f \in {"none", "munmap"} : SnkClose(f) \/ SnkDestroy(f)

SpecCounts == Init /\ [][NextCounts]_vars

\* a program that uses one of the two views and never the other
SourceOnly == last.view # "snk"

SinkOnly == last.view # "src"

NextOneView ==
    \/ SourceOnly /\ SrcConstruct
    \/ \E p \in Paths, c \in SourceOpenCases :
          SourceOnly /\ SrcConstructOpen(p, c.adv, c.fault)
    \/ \E p \in Paths, c \in SourceOpenCases :
          SourceOnly /\ SrcOpen(p, c.adv, c.fault)
    \/ \E f \in {"none", "munmap"} : SourceOnly /\ SrcClose(f)
    \/ \E f \in {"none", "munmap"} : SourceOnly /\ SrcDestroy(f)
    \/ SourceOnly /\ SrcIterate
    \/ SinkOnly /\ SnkConstruct
    \/ \E p \in Paths, n \in 0 .. MaxElems, f \in {"none", "open", "ftruncate", "mmap"} :
          SinkOnly /\ SnkConstructOpen(p, n, f)
    \/ \E p \in Paths, n \in 0 .. MaxElems, f \in {"none", "open", "ftruncate", "mmap"} :
          SinkOnly /\ SnkOpen(p, n, f)
    \/ \E f \in {"none", "munmap"} : SinkOnly /\ SnkClose(f)
    \/ \E f \in {"none", "munmap"} : SinkOnly /\ SnkDestroy(f)
    \/ \E i \in 0 .. MaxElems - 1, b \in 1 .. MaxVal : SinkOnly /\ SnkStore(i, b)
    \/ SinkOnly /\ SnkIterate

SpecOneView == Init /\ [][NextOneView]_vars

-----------------------------------------------------------------------------
(* Properties *)

View(name) == IF name = "src" THEN src ELSE snk

\* the closed state of a view: no descriptor, no bytes, no address
FullyClosed(v) == v.m_fd = NoFd /\ v.m_size = 0 /\ v.m_data = nullptr

\* the open state of a view: its descriptor is open, and its address is that
\* of a live mapping of exactly m_size bytes of the descriptor's file
FullyOpen(v) ==
    /\ v.m_fd \in Descriptors /\ fds[v.m_fd] # FreeFd
    /\ v.m_data \in Addresses /\ maps[v.m_data] # FreeMap
    /\ maps[v.m_data].len = v.m_size
    /\ maps[v.m_data].path = fds[v.m_fd].path

\* the descriptors and the mappings a view acquired and has not released
HeldFds(name) == {d \in Descriptors : fds[d].owner = name}
HeldMaps(name) == {a \in Addresses : maps[a].owner = name}

\* C1: after a failed open() on a read view or a write view, whichever step
\* failed, the view reports itself closed: is_open() is false, bytes() is 0
\* and data() is null.
C1_FailedOpenReportsClosed ==
    (last.op = "open" /\ last.err # NoError) =>
        /\ last.view = "src" =>
              ~source_is_open(src) /\ source_bytes(src) = 0 /\ source_data(src) = nullptr
        /\ last.view = "snk" =>
              ~sink_is_open(snk) /\ sink_bytes(snk) = 0 /\ sink_data(snk) = nullptr

\* C2: in every state reachable by construct / open / close calls, each view
\* is either fully closed or fully open; no mixed state is reachable.
C2_ClosedOrOpen ==
    \A name \in {"src", "snk"} :
        View(name).alive => FullyClosed(View(name)) \/ FullyOpen(View(name))

\* C3: when a view has been destroyed, or its opening constructor has failed,
\* every descriptor and every mapping it acquired has been released.
C3_NoLeak ==
    (last.op = "dtor" \/ (last.op = "ctor_open" /\ last.err # NoError)) =>
        HeldFds(last.view) = {} /\ HeldMaps(last.view) = {}

\* C4: when the unmap step fails during close(), close() reports UnmapError
\* and the view is nevertheless reset to the closed state.
C4_FailedCloseResets ==
    (last.op = "close" /\ last.err = UnmapError) => FullyClosed(View(last.view))

\* C5: close() is idempotent: after any close() the view is closed, a close()
\* that follows a close() reports no error, and a close() of a closed view
\* makes no system call.
C5_CloseIdempotent ==
    (last.op = "close") =>
        /\ FullyClosed(View(last.view))
        /\ last.again => last.err = NoError /\ last.calls = <<>>

\* C6: round trip: n known values assigned in order through the write view's
\* iterator, the write view closed, the same path opened as a read view: the
\* read view's iteration yields the same n values in the same order.
C6_RoundTrip ==
    (last.view = "src" /\ last.op = "iterate" /\ rt.stage = "reopened") =>
        /\ last.err = NoError
        /\ last.values = [k \in 1 .. rt.n |-> Known(k - 1)]

\* C7: once a write view's open(path, n) has succeeded, the file is exactly
\* n * sizeof(T) bytes long and every byte of it is zero, also when the
\* resize step failed.
C7_SizedAndZeroed ==
    (last.view = "snk" /\ last.op \in {"open", "ctor_open"} /\ last.err = NoError) =>
        files[last.path].content = Zeros(last.n * SizeofT)

\* the steps that are no open, close, construction or destruction of the
\* read view: its loops, and every call of the write view
KeepsSourceOpen == last'.view # "src" \/ last'.op = "iterate"

\* C8: after a successful open of a read view, bytes() is the byte size the
\* file has at that moment and size() is bytes() / sizeof(T) rounded down;
\* both stay as they are until the view is opened again, closed or destroyed.
C8_SourceBytesAndSize ==
    /\ [](  (last.view = "src" /\ last.op \in {"open", "ctor_open"} /\ last.err = NoError)
            => /\ source_bytes(src) = Len(files[last.path].content)
               /\ source_size(src) * SizeofT <= source_bytes(src)
               /\ source_bytes(src) < (source_size(src) + 1) * SizeofT )
    /\ [][ (src.alive /\ KeepsSourceOpen)
            => /\ source_bytes(src') = source_bytes(src)
               /\ source_size(src') = source_size(src) ]_vars

\* a read view open on a file with a trailing partial element, after the
\* write view has replaced the file by one of another length
C8_Witness ==
    /\ src.alive /\ FullyOpen(src)
    /\ source_bytes(src) % SizeofT # 0
    /\ source_size(src) > 0
    /\ last.view = "snk" /\ last.op = "ctor_open" /\ last.err = NoError
    /\ last.path = fds[src.m_fd].path
    /\ Len(files[last.path].content) # source_bytes(src)

\* C9: a loop from begin() to end() over an open view ends after exactly
\* floor(bytes() / sizeof(T)) steps, visits the positions 0, 1, ... in
\* increasing order and reads the elements of the file there; no position it
\* dereferences holds an element that extends past bytes(); over a closed
\* view begin() equals end() and nothing is visited.
C9_IterationBounds ==
    (last.view = "src" /\ last.op = "iterate") =>
        /\ \A i \in 1 .. Len(last.visited) :
              /\ last.visited[i] = i - 1
              /\ (last.visited[i] + 1) * SizeofT <= source_bytes(src)
        /\ FullyOpen(src) =>
              /\ last.err = NoError
              /\ Len(last.visited) * SizeofT <= source_bytes(src)
              /\ source_bytes(src) < (Len(last.visited) + 1) * SizeofT
              /\ Len(last.values) = Len(last.visited)
              /\ \A i \in 1 .. Len(last.values) :
                    last.values[i] =
                        SubSeq(files[fds[src.m_fd].path].content,
                               (i - 1) * SizeofT + 1, i * SizeofT)
        /\ FullyClosed(src) =>
              /\ source_iterator_eq(source_begin(src), source_end(src))
              /\ last.visited = <<>> /\ last.err = NoError

\* a completed loop over a read view open on a file with a trailing partial
\* element
C9_Witness ==
    /\ last.view = "src" /\ last.op = "iterate" /\ last.err = NoError
    /\ FullyOpen(src)
    /\ source_bytes(src) % SizeofT # 0
    /\ Len(last.visited) > 0

\* C10: open() of a closed read view on a path that does not exist fails with
\* FileOpenError and leaves the view closed (is_open() false, size() 0); no
\* stat, mmap or advise is attempted.
C10_OpenMissingPath ==
    (last.view = "src" /\ last.op \in {"open", "ctor_open"} /\ last.clean
        /\ ~files[last.path].exists) =>
        /\ last.err = FileOpenError
        /\ last.calls = <<Call("open", 0)>>
        /\ last.op = "open" => ~source_is_open(src) /\ source_size(src) = 0

\* open() of a constructed, closed read view on a path that does not exist
C10_Witness ==
    /\ last.view = "src" /\ last.op = "open" /\ last.clean
    /\ ~files[last.path].exists
    /\ src.alive

\* C11: after every open() and close() of a view, also an open() of a view
\* that is already open, the descriptors the view has opened and not closed
\* are none when it is closed and exactly its own when it is open, and
\* likewise the mappings.
C11_OneDescriptorOneMapping ==
    \A name \in {"src", "snk"} :
        (last.view = name /\ last.op \in {"open", "close"}) =>
            IF View(name).m_fd = NoFd
            THEN HeldFds(name) = {} /\ HeldMaps(name) = {}
            ELSE HeldFds(name) = {View(name).m_fd} /\ HeldMaps(name) = {View(name).m_data}

\* the step is a close() or a destruction of the named view
ClosesView(name) == last'.view = name /\ last'.op \in {"close", "dtor"}

\* C12: a successful close() or destruction of an open view unmaps the
\* mapping first and closes the descriptor second, releases both within that
\* one call and leaves the view closed; no close() or destruction, failed or
\* not, closes the descriptor before it has unmapped the mapping.
C12_UnmapThenClose ==
    [][ \A name \in {"src", "snk"} :
          LET v == View(name)
          IN ClosesView(name) =>
               /\ (FullyOpen(v) /\ last'.err = NoError) =>
                    /\ last'.calls = <<Call("munmap", v.m_size), Call("close", v.m_fd)>>
                    /\ fds'[v.m_fd] = FreeFd
                    /\ maps'[v.m_data] = FreeMap
                    /\ FullyClosed(IF name = "src" THEN src' ELSE snk')
               /\ \A k \in 1 .. Len(last'.calls) :
                    last'.calls[k].fn = "close" =>
                       /\ k = 2 /\ last'.calls[1].fn = "munmap"
                       /\ v.m_data \in Addresses => maps'[v.m_data] = FreeMap
               /\ (FullyOpen(v) /\ last'.err # NoError) =>
                    /\ fds'[v.m_fd] = fds[v.m_fd]
                    /\ maps'[v.m_data] = maps[v.m_data] ]_vars

\* an open view has just been closed by close(): both system calls were
\* made, nothing of the view is held any more
C12_Witness ==
    /\ last.op = "close" /\ last.err = NoError /\ Len(last.calls) = 2
    /\ last.view \in {"src", "snk"}
    /\ View(last.view).alive /\ FullyClosed(View(last.view))
    /\ HeldFds(last.view) = {} /\ HeldMaps(last.view) = {}

\* C13: a value stored through data()[i] of an open write view is what a
\* read view mapping the same file reads at index i, whether it was opened
\* before the store or after it, also after the write view was closed, until
\* a later open of a write view truncates the file; closing the write view
\* leaves the file as it is.
C13_StoresVisible ==
    /\ [](\A p \in Paths, i \in 0 .. MaxElems - 1 :
            ( /\ wrote[p][i] # 0
              /\ src.alive /\ FullyOpen(src) /\ fds[src.m_fd].path = p
              /\ i < source_size(src) )
            => /\ Access(files, maps, source_data(src)) = "ok"
               /\ source_iterator_deref(files, maps, source_iterator(source_data(src), i))
                     = [j \in 1 .. SizeofT |-> wrote[p][i]]
               /\ (last.view = "src" /\ last.op = "iterate")
                     => /\ last.err = NoError /\ Len(last.values) = source_size(src)
                        /\ last.values[i + 1] = [j \in 1 .. SizeofT |-> wrote[p][i]])
    /\ [][ClosesView("snk") => files' = files]_vars

\* a read view opened after the write view was destroyed, over a file that
\* holds a stored value within the view's size
C13_Witness ==
    /\ last.view = "src" /\ last.op \in {"open", "ctor_open"} /\ last.err = NoError
    /\ ~snk.alive
    /\ \E i \in 0 .. MaxElems - 1 : wrote[last.path][i] # 0 /\ i < source_size(src)

\* a read view opened before the store and still open when it is made
C13_WitnessOpenBefore ==
    /\ last.view = "snk" /\ last.op = "store" /\ last.err = NoError
    /\ src.alive /\ FullyOpen(src) /\ last.n < source_size(src)
    /\ wrote[fds[src.m_fd].path][last.n] # 0

\* C14: after a successful open(path, n) of a write view the file has mode
\* 0600, whether the call created it or found it with other permission bits.
C14_OwnerOnlyMode ==
    (last.view = "snk" /\ last.op \in {"open", "ctor_open"} /\ last.err = NoError)
        => files[last.path].exists /\ files[last.path].mode = sink_mode

\* the steps of file_source::open and the error of each
OpenSteps == <<"open", "fstat", "mmap", "posix_madvise">>

OpenErrors == <<FileOpenError, FileStatError, MappingError, AdviseError>>

\* the first step of an open of path that fails in the current state under
\* the given environment failure (0: none does): ::open fails on a missing
\* file or a full descriptor table, mmap on an empty file or a full address
\* space, and each step fails when the environment makes it fail
FirstFailure(path, fault) ==
    IF fault = "open" \/ ~files[path].exists \/ \A d \in Descriptors : fds[d] # FreeFd
    THEN 1
    ELSE IF fault = "fstat" THEN 2
    ELSE IF \/ fault = "mmap" \/ Len(files[path].content) = 0
            \/ \A a \in Addresses : maps[a] # FreeMap
    THEN 3
    ELSE IF fault = "posix_madvise" THEN 4
    ELSE 0

\* the names of the system calls of the last call, in the order made
CallNames == [k \in 1 .. Len(last.calls) |-> last.calls[k].fn]

\* C15: an open of a read view makes the calls open, fstat, mmap,
\* posix_madvise in that order up to and including the first that fails,
\* throws the error of that step and makes no later call; when only the hint
\* fails the open fails too, with the mapping in place.
C15_FirstFailingStep ==
    /\ [][ \A p \in Paths, c \in SourceOpenCases :
             (SrcOpen(p, c.adv, c.fault) \/ SrcConstructOpen(p, c.adv, c.fault))
             => LET k == FirstFailure(p, c.fault)
                IN /\ last'.err = IF k = 0 THEN NoError ELSE OpenErrors[k]
                   /\ CallNames' = SubSeq(OpenSteps, 1, IF k = 0 THEN 4 ELSE k) ]_vars
    /\ []( (last.view = "src" /\ last.op \in {"open", "ctor_open"})
           => /\ \E k \in 1 .. 4 : CallNames = SubSeq(OpenSteps, 1, k)
              /\ last.err \in {NoError, OpenErrors[Len(last.calls)]}
              /\ last.err = NoError => Len(last.calls) = 4
              /\ (last.op = "open" /\ last.err = AdviseError) => FullyOpen(src) )

\* an open() whose first three steps succeeded and whose hint failed
C15_Witness ==
    /\ last.view = "src" /\ last.op = "open" /\ last.err = AdviseError
    /\ CallNames = OpenSteps
    /\ FullyOpen(src) /\ source_bytes(src) > 0

\* C16: a successful open(path, n) of a write view leaves size() = n and
\* bytes() = n * sizeof(T), the product taken in the integers; an n whose
\* product with sizeof(T) is 2^64 or more never leaves the view open.
C16_NoWrappedSize ==
    (last.view = "snk" /\ last.err = NoError) =>
        /\ last.op \in {"open", "ctor_open"}
              => sink_size(snk) = last.n /\ sink_bytes(snk) = last.n * SizeofT
        /\ last.op # "open_high"

\* C17: no call of a read view (construction, open, close, a loop that
\* dereferences its iterator, destruction) changes the length or the bytes
\* of any file; what a loop reads are copies of the elements.
C17_SourceLeavesFiles ==
    /\ [][last'.view = "src" => files' = files]_vars
    /\ []( (last.view = "src" /\ last.op = "iterate" /\ last.err = NoError /\ FullyOpen(src))
           => \A k \in 1 .. Len(last.values) :
                 last.values[k] = ElemAt(files, maps, source_data(src), k - 1) )

\* a loop over an open read view has read elements of a file that a write
\* view created
C17_Witness ==
    /\ last.view = "src" /\ last.op = "iterate" /\ last.err = NoError
    /\ FullyOpen(src) /\ Len(last.values) > 0
    /\ files[fds[src.m_fd].path].mode = sink_mode

\* C18: a successful open of a read view has given the hint for the whole
\* mapping, that is for exactly bytes() bytes from data() on, whatever the
\* size of the element type.
C18_HintCoversMapping ==
    (last.view = "src" /\ last.op \in {"open", "ctor_open"} /\ last.err = NoError) =>
        /\ Len(last.calls) = 4
        /\ last.calls[4] = Call("posix_madvise", source_bytes(src))

\* the last call was an open (by member or constructor) of the named view
\* that got past ::open and, for the read view, past fstat
ReachedMmap(name) ==
    /\ last.view = name /\ last.op \in {"open", "ctor_open"}
    /\ last.err \notin {FileOpenError, FileStatError}

\* an open of a zero-length view fails at mmap: a read view on an existing
\* empty file, a write view with n = 0
ZeroLengthOpenFails ==
    /\ (ReachedMmap("src") /\ Len(files[last.path].content) = 0) => last.err = MappingError
    /\ (ReachedMmap("snk") /\ last.n = 0) => last.err = MappingError

\* a view whose open succeeded has bytes() > 0
OpenedViewHasBytes ==
    \A name \in {"src", "snk"} :
        (last.view = name /\ last.op \in {"open", "ctor_open"} /\ last.err = NoError)
            => View(name).m_size > 0

\* C19: opening a read view on an empty file or a write view with n = 0
\* fails with the mapping error; so a view whose open succeeded has
\* bytes() > 0, and a view with bytes() = 0 is never seen other than closed.
C19_ZeroLengthOnlyClosed ==
    /\ ZeroLengthOpenFails
    /\ OpenedViewHasBytes
    /\ \A name \in {"src", "snk"} :
          (View(name).alive /\ View(name).m_size = 0) => View(name).m_fd = NoFd

====
